---- MODULE Spec2Model ----
(***************************************************************************)
(* Fingertip geometry analysis of GeoRT                                    *)
(* (geort/utils/analyze_fingertip_geometry.py), and the mesh loading of    *)
(* its visualization (geort/utils/visualize_fingertip_offset.py).          *)
(*                                                                         *)
(* Numbers.  A float is modelled by an integer counting 1/Unit, so that    *)
(* every quantity the analysis computes on the modelled inputs (halved box *)
(* sizes, bounding-box centres, normalised directions, projections) is     *)
(* exact.  A vector is a 3-tuple of such integers; Python's None is the    *)
(* empty tuple; the vector whose three components are all NaN (the only    *)
(* NaN value the code can produce: 0/0 in the normalisation) is NaNVec.    *)
(* Python indexes axes 0..2, TLA+ tuples 1..3: axis k is component k+1.    *)
(***************************************************************************)
EXTENDS Integers, Sequences, FiniteSets, TLC

VARIABLES pc,                \* where the program is
          link_data,         \* analyze_fingertip_geometry: argument
          tip_axis,          \* analyze_fingertip_geometry: argument
          tip_axis_angle,    \* analyze_fingertip_geometry: argument
          loads,             \* the geometry sources load_mesh was called for, in order
          geometry,          \* the dict analyze_fingertip_geometry returned
          exc,               \* the exception that left the program, "None" if none
          suggested_offset,  \* what suggest_center_offset returned
          args,              \* main: the parsed command line (tip_axes, tip_angles)
          tip_axes_map,      \* main: finger -> axis
          tip_angles_map,    \* main: finger -> (from_axis, to_axis, angle)
          config,            \* main: get_config(args.hand)
          urdf,              \* the description file at config['urdf_path']
          links,             \* main: parse_urdf(urdf_path)
          finger_idx,        \* main: the fingers the loop has gone through
          suggestions,       \* main: the list of suggested finger entries
          warnings,          \* main: the warnings printed by main itself
          saved,             \* the configuration written with --save, None if none
          mesh_path,         \* load_mesh: the filename of a mesh element
          disk,              \* the files on disk: path -> content
          analysis_opened,   \* load_mesh: the path given to trimesh.load, None if none
          analysis_mesh,     \* load_mesh: what it returned
          viz_opened,        \* load_mesh_from_urdf: the path given to trimesh.load
          viz_mesh           \* load_mesh_from_urdf: what it returned

callvars == <<link_data, tip_axis, tip_axis_angle, loads, geometry, suggested_offset>>

mainvars == <<args, tip_axes_map, tip_angles_map, config, urdf, links, finger_idx,
              suggestions, warnings, saved>>

pathvars == <<mesh_path, disk, analysis_opened, analysis_mesh, viz_opened, viz_mesh>>

vars == <<pc, exc, callvars, mainvars, pathvars>>

---------------------------------------------------------------------------
(* Values *)

Unit == 4 * 25

None == <<>>

Some(x) == <<x>>

NaNVec == <<"nan">>

Axes == {0, 1, 2}

\* The vector (x, y, z), given in whole units.
Vec(x, y, z) == <<x * Unit, y * Unit, z * Unit>>

IsVec(p) == /\ Len(p) = 3
            /\ \A k \in 1 .. 3 : p[k] \in Int

VecAdd(p, q) == [k \in 1 .. 3 |-> p[k] + q[k]]

MaxOf(S) == CHOOSE m \in S : \A x \in S : x <= m

MinOf(S) == CHOOSE m \in S : \A x \in S : m <= x

SeqsUpTo(S, n) == UNION {[1 .. k -> S] : k \in 0 .. n}

---------------------------------------------------------------------------
(* numpy and the mesh library *)

\* np.argmax as it is not: the index of the last occurrence of the maximum.
np_argmax_last(xs) ==
    CHOOSE i \in 1 .. Len(xs) :
        /\ \A j \in 1 .. Len(xs) : xs[j] <= xs[i]
        /\ \A j \in (i + 1) .. Len(xs) : xs[j] < xs[i]

\* np.argmax: the index (1-based here) of the first occurrence of the maximum.
np_argmax(xs) ==
    CHOOSE i \in 1 .. Len(xs) :
        /\ \A j \in 1 .. Len(xs) : xs[j] <= xs[i]
        /\ \A j \in 1 .. (i - 1) : xs[j] < xs[i]

\* mesh.vertices[:, k]
Column(vertices, k) == [i \in 1 .. Len(vertices) |-> vertices[i][k + 1]]

ColumnSet(vertices, k) == {vertices[i][k + 1] : i \in 1 .. Len(vertices)}

\* mesh.bounds: <<min corner, max corner>>, None for a mesh without vertices.
mesh_bounds(vertices) ==
    IF vertices = <<>> THEN None
    ELSE << [k \in 1 .. 3 |-> MinOf(ColumnSet(vertices, k - 1))],
            [k \in 1 .. 3 |-> MaxOf(ColumnSet(vertices, k - 1))] >>

\* mesh.bounds.mean(axis=0)
bounds_center(bounds) == [k \in 1 .. 3 |-> (bounds[1][k] + bounds[2][k]) \div 2]

SumCol(vertices, k) ==
    LET S[i \in 0 .. Len(vertices)] ==
            IF i = 0 THEN 0 ELSE S[i - 1] + vertices[i][k]
    IN  S[Len(vertices)]

\* mesh.centroid is the mesh library's; it is modelled by the vertex mean, rounded
\* down to 1/Unit.
mesh_centroid(vertices) ==
    [k \in 1 .. 3 |-> SumCol(vertices, k) \div Len(vertices)]

\* np.cos(np.deg2rad(angle_deg)) and np.sin(...), in 1/Unit.  Angle 37 stands for
\* atan(3/4) = 36.87 degrees, whose cosine and sine are 4/5 and 3/5.
np_cos(angle_deg) == CASE angle_deg = 0 -> Unit
                       [] angle_deg = 37 -> (4 * Unit) \div 5

np_sin(angle_deg) == CASE angle_deg = 0 -> 0
                       [] angle_deg = 37 -> (3 * Unit) \div 5

Isqrt(n) == CHOOSE r \in 0 .. (2 * Unit) : r * r <= n /\ n < (r + 1) * (r + 1)

\* np.linalg.norm, in 1/Unit.
np_norm(d) == Isqrt(d[1] * d[1] + d[2] * d[2] + d[3] * d[3])

---------------------------------------------------------------------------
(* load_mesh *)

\* A mesh file of the description: whether one of the two paths load_mesh tries
\* exists, whether trimesh.load reads it, and the vertices of the mesh it holds.
MeshFile(vertices) == [exists |-> TRUE, loadable |-> TRUE, vertices |-> vertices]

MissingFile == [exists |-> FALSE, loadable |-> FALSE, vertices |-> <<>>]

CorruptFile == [exists |-> TRUE, loadable |-> FALSE, vertices |-> <<>>]

\* load_mesh without its try/except's None: a file trimesh.load fails on comes
\* back as a mesh without vertices.
load_mesh_corrupt_as_empty(file) ==
    IF ~file.exists THEN None
    ELSE IF ~file.loadable THEN Some(<<>>)
    ELSE Some(file.vertices)

\* load_mesh: None for a file that is not found or that trimesh.load raises on,
\* else the mesh (its vertex sequence).
load_mesh(file) ==
    IF ~file.exists THEN None
    ELSE IF ~file.loadable THEN None
    ELSE Some(file.vertices)

---------------------------------------------------------------------------
(* analyze_fingertip_geometry *)

InitResults ==
    [bounds |-> None, center |-> None, centroid |-> None, tip_estimate |-> None,
     mesh_type |-> "None", tip_axis_used |-> None, tip_direction |-> None]

Return(results, loaded) == [exc |-> "None", results |-> results, loads |-> loaded]

Raise(e, loaded) == [exc |-> e, results |-> InitResults, loads |-> loaded]

\* A wrong order of the branches: the explicit axis before the angle spec.
tip_criterion_axis_first(axis, axis_angle) ==
    IF axis # None THEN "axis"
    ELSE IF axis_angle # None THEN "angle"
    ELSE "auto"

\* Which branch of "Determine tip direction" runs.
tip_criterion(axis, axis_angle) ==
    IF axis_angle # None THEN "angle"
    ELSE IF axis # None THEN "axis"
    ELSE "auto"

\* direction = zeros(3); direction[from] = cos; direction[to] = sin;
\* direction / norm(direction).  A zero vector divides to NaN (numpy warns and
\* goes on).
angle_direction(axis_angle) ==
    LET from_axis == axis_angle[1]
        to_axis   == axis_angle[2]
        angle_deg == axis_angle[3]
        d0 == <<0, 0, 0>>
        d1 == [d0 EXCEPT ![from_axis + 1] = np_cos(angle_deg)]
        d2 == [d1 EXCEPT ![to_axis + 1] = np_sin(angle_deg)]
        norm == np_norm(d2)
    IN  IF norm = 0 THEN NaNVec
        ELSE [k \in 1 .. 3 |-> (d2[k] * Unit) \div norm]

Dot(p, q) == (p[1] * q[1] + p[2] * q[2] + p[3] * q[3]) \div Unit

\* A wrong tip: the vertex of maximum projection itself, not its projection.
angle_tip_point_vertex(vertices, direction) ==
    IF direction = NaNVec THEN NaNVec
    ELSE CHOOSE v \in {vertices[i] : i \in 1 .. Len(vertices)} :
             \A j \in 1 .. Len(vertices) : Dot(vertices[j], direction) <= Dot(v, direction)

\* projections = vertices @ direction; direction * max(projections).
angle_tip_point(vertices, direction) ==
    IF direction = NaNVec THEN NaNVec
    ELSE LET max_projection ==
                 MaxOf({Dot(vertices[i], direction) : i \in 1 .. Len(vertices)})
         IN  [k \in 1 .. 3 |-> (direction[k] * max_projection) \div Unit]

\* A wrong tie-break: the last vertex of maximum coordinate.
axis_tip_point_last(vertices, use_axis) ==
    vertices[np_argmax_last(Column(vertices, use_axis))]

\* vertices[np.argmax(vertices[:, use_axis])]
axis_tip_point(vertices, use_axis) ==
    vertices[np_argmax(Column(vertices, use_axis))]

\* A wrong tie-break: the highest axis of largest extent.
auto_axis_last(bounds) ==
    np_argmax_last([k \in 1 .. 3 |-> bounds[2][k] - bounds[1][k]]) - 1

\* np.argmax(bounds[1] - bounds[0]), as an axis 0..2.
auto_axis(bounds) ==
    np_argmax([k \in 1 .. 3 |-> bounds[2][k] - bounds[1][k]]) - 1

\* The tip of a loaded collision mesh with vertices.
mesh_tip(vertices, axis, axis_angle) ==
    CASE tip_criterion(axis, axis_angle) = "angle" ->
            LET direction == angle_direction(axis_angle)
            IN  [tip_direction |-> direction,
                 tip_axis_used |-> <<axis_angle[3], axis_angle[1], axis_angle[2]>>,
                 tip_point |-> angle_tip_point(vertices, direction)]
      [] tip_criterion(axis, axis_angle) = "axis" ->
            [tip_direction |-> None,
             tip_axis_used |-> Some(axis[1]),
             tip_point |-> axis_tip_point(vertices, axis[1])]
      [] tip_criterion(axis, axis_angle) = "auto" ->
            LET use_axis == auto_axis(mesh_bounds(vertices))
            IN  [tip_direction |-> None,
                 tip_axis_used |-> Some(use_axis),
                 tip_point |-> axis_tip_point(vertices, use_axis)]

\* The fields of a loaded mesh without its mesh type.
mesh_fields_untyped(mesh_type, vertices) ==
    [InitResults EXCEPT !.bounds = mesh_bounds(vertices),
                        !.center = bounds_center(mesh_bounds(vertices)),
                        !.centroid = mesh_centroid(vertices)]

\* The fields a loaded mesh sets.  mesh.bounds of a mesh without vertices is None,
\* and None.mean raises AttributeError.
mesh_fields(mesh_type, vertices) ==
    [InitResults EXCEPT !.mesh_type = mesh_type,
                        !.bounds = mesh_bounds(vertices),
                        !.center = bounds_center(mesh_bounds(vertices)),
                        !.centroid = mesh_centroid(vertices)]

\* A wrong box tip: the whole height above the origin.
box_tip_full(size, origin) == VecAdd(origin, <<0, 0, size[3]>>)

\* tip of a box: origin + (0, 0, size[2] / 2)
box_tip(size, origin) == VecAdd(origin, <<0, 0, size[3] \div 2>>)

\* tip of a sphere: origin + (0, 0, radius)
sphere_tip(radius, origin) == VecAdd(origin, <<0, 0, radius>>)

\* "Try to load collision mesh first": the first collision primitive only.
analyze_collision(data, axis, axis_angle) ==
    IF data.collision = <<>> THEN Return(InitResults, <<>>)
    ELSE
    LET collision_data == data.collision[1] IN
    CASE collision_data.type = "mesh" ->
            LET mesh == load_mesh(collision_data.file)
                loaded == <<"collision">>
            IN  IF mesh = None THEN Return(InitResults, loaded)
                ELSE IF mesh[1] = <<>> THEN Raise("AttributeError", loaded)
                ELSE LET tip == mesh_tip(mesh[1], axis, axis_angle)
                     IN  Return([mesh_fields("collision_mesh", mesh[1]) EXCEPT
                                    !.tip_direction = tip.tip_direction,
                                    !.tip_axis_used = tip.tip_axis_used,
                                    !.tip_estimate = tip.tip_point], loaded)
      [] collision_data.type = "box" ->
            IF Len(collision_data.size) < 3 THEN Raise("IndexError", <<>>)
            ELSE Return([InitResults EXCEPT
                            !.mesh_type = "box",
                            !.center = collision_data.origin_xyz,
                            !.tip_estimate = box_tip(collision_data.size,
                                                     collision_data.origin_xyz)],
                        <<>>)
      [] collision_data.type = "sphere" ->
            Return([InitResults EXCEPT
                       !.mesh_type = "sphere",
                       !.center = collision_data.origin_xyz,
                       !.tip_estimate = sphere_tip(collision_data.radius,
                                                   collision_data.origin_xyz)],
                   <<>>)

\* Whether the visual mesh is tried.
visual_tried(results, data) == results.mesh_type = "None" /\ data.visual # <<>>

\* A wrong visual tip: the explicit axis, when given, instead of Z.
visual_tip_point_axis(vertices, axis, axis_angle) ==
    axis_tip_point(vertices, IF axis # None THEN axis[1] ELSE 2)

\* The tip of a loaded visual mesh: the first vertex of maximum Z.
visual_tip_point(vertices, axis, axis_angle) == axis_tip_point(vertices, 2)

\* "If no collision mesh, try visual mesh".
analyze_visual(after, data, axis, axis_angle) ==
    IF after.exc # "None" THEN after
    ELSE IF ~visual_tried(after.results, data) THEN after
    ELSE
    LET visual_data == data.visual[1]
        mesh == load_mesh(visual_data.file)
        loaded == Append(after.loads, "visual")
    IN  IF mesh = None THEN Return(after.results, loaded)
        ELSE IF mesh[1] = <<>> THEN Raise("AttributeError", loaded)
        ELSE Return([mesh_fields("visual_mesh", mesh[1]) EXCEPT
                        !.tip_estimate =
                            visual_tip_point(mesh[1], axis, axis_angle)], loaded)

\* The call: the exception it raises ("None": it returns), the dict it returns,
\* and the geometry sources it called load_mesh for.
analyze_fingertip_geometry(data, axis, axis_angle) ==
    analyze_visual(analyze_collision(data, axis, axis_angle), data, axis, axis_angle)

---------------------------------------------------------------------------
(* suggest_center_offset *)

\* A wrong priority: the centroid before the tip estimate.
suggest_center_offset_centroid_first(geometry_info) ==
    IF geometry_info.centroid # None THEN geometry_info.centroid
    ELSE IF geometry_info.tip_estimate # None THEN geometry_info.tip_estimate
    ELSE IF geometry_info.center # None THEN geometry_info.center
    ELSE <<0, 0, 0>>

suggest_center_offset(geometry_info) ==
    IF geometry_info.tip_estimate # None THEN geometry_info.tip_estimate
    ELSE IF geometry_info.centroid # None THEN geometry_info.centroid
    ELSE IF geometry_info.center # None THEN geometry_info.center
    ELSE <<0, 0, 0>>

---------------------------------------------------------------------------
(* Inputs of the calls *)

MaxVerts == 2

Points == {Vec(1, 0, -1), Vec(1, 1, -1), Vec(-1, 0, 1), Vec(1, 1, 1)}

Meshes == SeqsUpTo(Points, MaxVerts)

Angles == {0, 37}

AxisArgs == {None} \cup {Some(k) : k \in Axes}

AngleArgs == {None} \cup {<<a, b, g>> : a \in Axes, b \in Axes, g \in Angles}

AllFiles == {MissingFile, CorruptFile} \cup {MeshFile(m) : m \in Meshes}

FewFiles == {MissingFile, MeshFile(<<Vec(-1, 0, 1), Vec(1, 1, 1)>>)}

Box(size, origin) == [type |-> "box", size |-> size, origin_xyz |-> origin]

Sphere(radius, origin) == [type |-> "sphere", radius |-> radius, origin_xyz |-> origin]

MeshPrim(file) == [type |-> "mesh", file |-> file]

\* The sizes are whole units; the last box has a size attribute of two numbers.
Boxes == {Box(Vec(10, 10, 6), Vec(1, 2, 3)), Box(Vec(1, 1, 1), Vec(0, 0, 0)),
          Box(<<Unit, Unit>>, Vec(0, 0, 0))}

\* The first sphere has radius 0.01.
Spheres == {Sphere(Unit \div 100, Vec(0, 0, 0)), Sphere(2 * Unit, Vec(1, 2, 3))}

Prims(files) == {MeshPrim(f) : f \in files} \cup Boxes \cup Spheres

\* Collision lists whose first primitive is unusable, with a second one.
TwoPrims == {<<MeshPrim(MissingFile), Box(Vec(10, 10, 6), Vec(1, 2, 3))>>,
             <<MeshPrim(CorruptFile), MeshPrim(MeshFile(<<Vec(1, 1, 1)>>))>>,
             <<Box(Vec(1, 1, 1), Vec(0, 0, 0)), MeshPrim(MeshFile(<<Vec(1, 1, 1)>>))>>}

Collisions(files) == {<<>>} \cup {<<p>> : p \in Prims(files)} \cup TwoPrims

FewCollisions == {<<>>, <<MeshPrim(MissingFile)>>, <<MeshPrim(CorruptFile)>>,
                  <<MeshPrim(MeshFile(<<Vec(1, 0, -1), Vec(1, 1, -1)>>))>>,
                  <<Box(Vec(10, 10, 6), Vec(1, 2, 3))>>,
                  <<Sphere(Unit \div 100, Vec(0, 0, 0))>>}
                 \cup TwoPrims

Visuals(files) == {<<>>} \cup {<<[file |-> f]>> : f \in files}

\* The links of a description: every collision mesh with a few visual meshes, and a
\* few collision lists with every visual mesh.
LinkDatas ==
    {[collision |-> c, visual |-> v] : c \in Collisions(AllFiles), v \in Visuals(FewFiles)}
    \cup
    {[collision |-> c, visual |-> v] : c \in FewCollisions, v \in Visuals(AllFiles)}

NoLink == [collision |-> <<>>, visual |-> <<>>]

OptVecs == {None, Vec(1, 0, 0), Vec(0, 2, 0), Vec(0, 0, 3)}

\* The records suggest_center_offset reads three fields of.
GeometryInfos ==
    {[InitResults EXCEPT !.tip_estimate = t, !.centroid = c, !.center = b] :
        t \in OptVecs, c \in OptVecs, b \in OptVecs}

---------------------------------------------------------------------------
(* The calls of analyze_fingertip_geometry and of suggest_center_offset *)

\* No call of load_mesh on its own.
NoMeshPath ==
    /\ mesh_path = <<>>
    /\ disk = <<>>
    /\ analysis_opened = None
    /\ analysis_mesh = None
    /\ viz_opened = None
    /\ viz_mesh = None

InitAnalyze ==
    /\ \/ /\ pc = "analyze"
          /\ link_data \in LinkDatas
          /\ tip_axis \in AxisArgs
          /\ tip_axis_angle \in AngleArgs
          /\ geometry = InitResults
       \/ /\ pc = "suggest"
          /\ link_data = NoLink
          /\ tip_axis = None
          /\ tip_axis_angle = None
          /\ geometry \in GeometryInfos
    /\ loads = <<>>
    /\ exc = "None"
    /\ suggested_offset = None
    /\ args = [tip_axes |-> <<>>, tip_angles |-> <<>>]
    /\ tip_axes_map = <<>>
    /\ tip_angles_map = <<>>
    /\ config = [urdf_path |-> "", fingertip_link |-> <<>>]
    /\ urdf = <<>>
    /\ links = <<>>
    /\ finger_idx = 0
    /\ suggestions = <<>>
    /\ warnings = <<>>
    /\ saved = None
    /\ NoMeshPath

\* geometry = analyze_fingertip_geometry(link_data, urdf_dir, tip_axis, tip_axis_angle)
Analyze ==
    /\ pc = "analyze"
    /\ LET r == analyze_fingertip_geometry(link_data, tip_axis, tip_axis_angle)
       IN  /\ geometry' = r.results
           /\ exc' = r.exc
           /\ loads' = r.loads
           /\ pc' = IF r.exc = "None" THEN "analyzed" ELSE "raised"
    /\ UNCHANGED <<link_data, tip_axis, tip_axis_angle, suggested_offset, mainvars, pathvars>>

\* suggested_offset = suggest_center_offset(geometry), on the analysis' result or
\* on a record of the caller's.
Suggest ==
    /\ pc \in {"analyzed", "suggest"}
    /\ suggested_offset' = suggest_center_offset(geometry)
    /\ pc' = IF pc = "analyzed" THEN "done" ELSE "suggested"
    /\ UNCHANGED <<link_data, tip_axis, tip_axis_angle, loads, geometry, exc, mainvars,
                   pathvars>>

NextAnalyze == Analyze \/ Suggest

SpecAnalyze == InitAnalyze /\ [][NextAnalyze]_vars

---------------------------------------------------------------------------
(* Properties of the calls (checked under SpecAnalyze) *)

\* The file is found and trimesh.load reads it.
Readable(file) == file.exists /\ file.loadable

\* The analysis returned, and its first collision primitive is a mesh that loaded.
CollisionMeshAnalyzed ==
    /\ pc \in {"analyzed", "done"}
    /\ link_data.collision # <<>>
    /\ link_data.collision[1].type = "mesh"
    /\ Readable(link_data.collision[1].file)

\* The vertices of the first collision primitive's mesh.
CollisionVertices == link_data.collision[1].file.vertices

\* v is the first vertex of vs whose coordinate on axis k is the largest of all.
FirstMaxVertex(v, vs, k) ==
    \E i \in 1 .. Len(vs) :
        /\ v = vs[i]
        /\ \A j \in 1 .. Len(vs) : vs[j][k + 1] <= vs[i][k + 1]
        /\ \A j \in 1 .. (i - 1) : vs[j][k + 1] < vs[i][k + 1]

\* C1: suggest_center_offset returns, for every record, exactly one 3D point and
\* never raises: the tip estimate if present, else the centroid if present, else
\* the bounding-box center if present, else (0,0,0).
C1_SuggestPriority ==
    pc \in {"suggested", "done"} =>
        /\ exc = "None"
        /\ suggested_offset # None
        /\ pc = "suggested" => IsVec(suggested_offset)
        /\ geometry.tip_estimate # None => suggested_offset = geometry.tip_estimate
        /\ geometry.tip_estimate = None /\ geometry.centroid # None =>
               suggested_offset = geometry.centroid
        /\ geometry.tip_estimate = None /\ geometry.centroid = None
             /\ geometry.center # None =>
               suggested_offset = geometry.center
        /\ geometry.tip_estimate = None /\ geometry.centroid = None
             /\ geometry.center = None =>
               suggested_offset = <<0, 0, 0>>

\* C1's case: a record with centroid and center but no tip estimate, and another
\* value in each, answered with the centroid.
C1_Witness ==
    /\ pc = "suggested"
    /\ geometry.tip_estimate = None
    /\ geometry.centroid # None
    /\ geometry.center # None
    /\ geometry.center # geometry.centroid
    /\ suggested_offset = geometry.centroid

\* C2: for a loaded collision mesh the criterion follows a strict precedence: the
\* angle spec if given (also when an axis is given too), else the explicit axis if
\* given, else the axis detected from the bounding-box extents.
C2_CriterionPrecedence ==
    CollisionMeshAnalyzed =>
        /\ geometry.mesh_type = "collision_mesh"
        /\ tip_axis_angle # None =>
               /\ geometry.tip_axis_used =
                      <<tip_axis_angle[3], tip_axis_angle[1], tip_axis_angle[2]>>
               /\ geometry.tip_direction = angle_direction(tip_axis_angle)
               /\ geometry.tip_estimate =
                      angle_tip_point(CollisionVertices, geometry.tip_direction)
        /\ tip_axis_angle = None /\ tip_axis # None =>
               /\ geometry.tip_axis_used = tip_axis
               /\ geometry.tip_direction = None
               /\ geometry.tip_estimate =
                      axis_tip_point(CollisionVertices, tip_axis[1])
        /\ tip_axis_angle = None /\ tip_axis = None =>
               /\ geometry.tip_axis_used =
                      Some(auto_axis(mesh_bounds(CollisionVertices)))
               /\ geometry.tip_direction = None

\* C2's case: an angle spec and an explicit axis for the same finger, the angle's
\* tip being another point than the axis' tip.
C2_Witness ==
    /\ CollisionMeshAnalyzed
    /\ tip_axis # None
    /\ tip_axis_angle # None
    /\ tip_axis_angle[1] # tip_axis[1]
    /\ geometry.tip_direction # None
    /\ geometry.tip_estimate # axis_tip_point(CollisionVertices, tip_axis[1])

\* C3: in the axis case (explicit or detected axis k) the tip point is a vertex of
\* the mesh: the first one, in enumeration order, whose k-th coordinate is the
\* maximum over all vertices; so the mesh and the axis determine it.
C3_AxisTipIsFirstMaxVertex ==
    CollisionMeshAnalyzed /\ tip_axis_angle = None =>
        /\ Len(geometry.tip_axis_used) = 1
        /\ tip_axis # None => geometry.tip_axis_used = tip_axis
        /\ FirstMaxVertex(geometry.tip_estimate, CollisionVertices,
                          geometry.tip_axis_used[1])

\* C3's case: two vertices share the maximum on the explicit axis and differ; the
\* first is the tip.
C3_Witness ==
    /\ CollisionMeshAnalyzed
    /\ tip_axis_angle = None
    /\ tip_axis # None
    /\ Len(CollisionVertices) = 2
    /\ CollisionVertices[1] # CollisionVertices[2]
    /\ CollisionVertices[1][tip_axis[1] + 1] = CollisionVertices[2][tip_axis[1] + 1]
    /\ geometry.tip_estimate = CollisionVertices[1]

\* The extent of the vertices on axis k.
Extent(vs, k) == MaxOf(ColumnSet(vs, k)) - MinOf(ColumnSet(vs, k))

\* C4: with no explicit axis and no angle spec the axis used is the one of the
\* largest bounding-box extent, the lowest index among equals.
C4_AutoAxisLargestExtent ==
    CollisionMeshAnalyzed /\ tip_axis_angle = None /\ tip_axis = None =>
        \E k \in Axes :
            /\ geometry.tip_axis_used = Some(k)
            /\ \A j \in Axes : Extent(CollisionVertices, j) <= Extent(CollisionVertices, k)
            /\ \A j \in Axes : j < k =>
                   Extent(CollisionVertices, j) < Extent(CollisionVertices, k)

\* C4's case: X and Z share the largest extent, above Y's, and X is used.
C4_Witness ==
    /\ CollisionMeshAnalyzed
    /\ tip_axis_angle = None
    /\ tip_axis = None
    /\ Extent(CollisionVertices, 0) = Extent(CollisionVertices, 2)
    /\ Extent(CollisionVertices, 1) < Extent(CollisionVertices, 0)
    /\ geometry.tip_axis_used = Some(0)

\* C5: in the angle case the tip point is direction * m, m the largest dot product
\* of a vertex with the direction; for axes a # b and angle 0 it lies on axis a,
\* its a-component the largest a-coordinate of a vertex (negative or not), as the
\* a-component of the explicit-axis-a tip, its other components zero.
C5_AngleTipOnDirection ==
    CollisionMeshAnalyzed /\ tip_axis_angle # None /\ geometry.tip_direction # NaNVec =>
        /\ \E i \in 1 .. Len(CollisionVertices) :
               LET m == Dot(CollisionVertices[i], geometry.tip_direction)
               IN  /\ \A j \in 1 .. Len(CollisionVertices) :
                          Dot(CollisionVertices[j], geometry.tip_direction) <= m
                   /\ \A k \in 1 .. 3 :
                          geometry.tip_estimate[k] * Unit = geometry.tip_direction[k] * m
        /\ tip_axis_angle[3] = 0 /\ tip_axis_angle[1] # tip_axis_angle[2] =>
               \A k \in Axes :
                   geometry.tip_estimate[k + 1] =
                       IF k = tip_axis_angle[1]
                       THEN MaxOf(ColumnSet(CollisionVertices, k))
                       ELSE 0

\* C5's case: angle 0 from axis a towards another axis, every vertex negative on
\* a and off the axis: the tip has that negative maximum on a and is no vertex.
C5_Witness ==
    /\ CollisionMeshAnalyzed
    /\ tip_axis_angle # None
    /\ tip_axis_angle[3] = 0
    /\ tip_axis_angle[1] # tip_axis_angle[2]
    /\ geometry.tip_estimate[tip_axis_angle[1] + 1] < 0
    /\ \A i \in 1 .. Len(CollisionVertices) :
           geometry.tip_estimate # CollisionVertices[i]

\* The analysis returned, and its first collision primitive is of the given type.
FirstCollisionAnalyzed(type) ==
    /\ pc \in {"analyzed", "done"}
    /\ link_data.collision # <<>>
    /\ link_data.collision[1].type = type

\* C6: for a box the tip point is the origin plus (0, 0, size.z / 2), for a sphere
\* the origin plus (0, 0, radius), whatever axis or angle spec was given: size
\* [10,10,6] at (1,2,3) gives (1,2,6), radius 0.01 at the origin gives (0,0,0.01).
C6_BoxSphereTip ==
    /\ FirstCollisionAnalyzed("box") =>
           LET box == link_data.collision[1]
           IN  /\ geometry.mesh_type = "box"
               /\ geometry.tip_estimate[1] = box.origin_xyz[1]
               /\ geometry.tip_estimate[2] = box.origin_xyz[2]
               /\ 2 * (geometry.tip_estimate[3] - box.origin_xyz[3]) = box.size[3]
               /\ box = Box(Vec(10, 10, 6), Vec(1, 2, 3)) =>
                      geometry.tip_estimate = Vec(1, 2, 6)
    /\ FirstCollisionAnalyzed("sphere") =>
           LET sphere == link_data.collision[1]
           IN  /\ geometry.mesh_type = "sphere"
               /\ geometry.tip_estimate[1] = sphere.origin_xyz[1]
               /\ geometry.tip_estimate[2] = sphere.origin_xyz[2]
               /\ geometry.tip_estimate[3] - sphere.origin_xyz[3] = sphere.radius
               /\ sphere = Sphere(Unit \div 100, Vec(0, 0, 0)) =>
                      geometry.tip_estimate = <<0, 0, Unit \div 100>>

\* C6's case: the box of size [10,10,6] at (1,2,3), with an explicit axis X and an
\* angle spec given for the finger.
C6_Witness ==
    /\ FirstCollisionAnalyzed("box")
    /\ link_data.collision[1] = Box(Vec(10, 10, 6), Vec(1, 2, 3))
    /\ tip_axis = Some(0)
    /\ tip_axis_angle # None
    /\ geometry.tip_estimate = Vec(1, 2, 6)

\* A collision primitive that yields a result: a mesh that loads and has vertices,
\* a box with its three sizes, a sphere.
Usable(p) ==
    CASE p.type = "mesh" -> Readable(p.file) /\ p.file.vertices # <<>>
      [] p.type = "box" -> Len(p.size) >= 3
      [] p.type = "sphere" -> TRUE

\* The visual geometry was used: load_mesh was called for it or the result is its.
VisualUsed == geometry.mesh_type = "visual_mesh" \/ \E i \in 1 .. Len(loads) : loads[i] = "visual"

\* The visual mesh is consulted only when the collision geometry gave no result,
\* and its tip is the first vertex of maximum Z, whatever axis or angle was given.
VisualOnlyAsFallback ==
    /\ VisualUsed =>
           /\ link_data.visual # <<>>
           /\ link_data.collision = <<>> \/ ~Usable(link_data.collision[1])
    /\ geometry.mesh_type = "visual_mesh" =>
           /\ geometry.tip_axis_used = None
           /\ geometry.tip_direction = None
           /\ FirstMaxVertex(geometry.tip_estimate, link_data.visual[1].file.vertices, 2)

\* C7 as stated: the visual mesh is consulted only as a fallback, and a link that
\* has a usable collision primitive never uses its visual geometry.
C7_VisualNeverUsedWithUsableCollision ==
    pc \in {"analyzed", "done"} =>
        /\ VisualOnlyAsFallback
        /\ (\E i \in 1 .. Len(link_data.collision) : Usable(link_data.collision[i]))
               => geometry.mesh_type # "visual_mesh"

\* C7 as amended: ... and a link whose first collision primitive is usable never
\* uses its visual geometry (the primitives after the first are not looked at).
C7_VisualNeverUsedWithUsableFirstCollision ==
    pc \in {"analyzed", "done"} =>
        /\ VisualOnlyAsFallback
        /\ link_data.collision # <<>> /\ Usable(link_data.collision[1]) => ~VisualUsed

\* C7's case: the collision mesh did not load, an explicit axis X is given, and the
\* tip is the visual mesh's first vertex of maximum Z, which is not its first
\* vertex of maximum X.
C7_Witness ==
    /\ pc \in {"analyzed", "done"}
    /\ link_data.collision # <<>>
    /\ geometry.mesh_type = "visual_mesh"
    /\ tip_axis = Some(0)
    /\ FirstMaxVertex(geometry.tip_estimate, link_data.visual[1].file.vertices, 2)
    /\ ~FirstMaxVertex(geometry.tip_estimate, link_data.visual[1].file.vertices, 0)

---------------------------------------------------------------------------
(* parse_urdf *)

\* A number in an attribute of the description file, or a word float() rejects.
Num(v) == [num |-> TRUE, val |-> v]

NotNum == [num |-> FALSE, val |-> 0]

\* <collision> elements: the geometry's tag, its attributes (None: the attribute
\* is missing; a size is the sequence of its whitespace-separated words), and the
\* origin's xyz (None: no origin).
XMesh(file) == [tag |-> "mesh", file |-> file, xyz |-> None]

XBox(size, xyz) == [tag |-> "box", size |-> size, xyz |-> xyz]

XSphere(radius, xyz) == [tag |-> "sphere", radius |-> radius, xyz |-> xyz]

XCylinder == [tag |-> "cylinder", xyz |-> None]

XLink(name, visual, collision) == [name |-> name, visual |-> visual, collision |-> collision]

Parsed(prims) == [exc |-> "None", prims |-> prims]

ParseError(e) == [exc |-> e, prims |-> <<>>]

origin_xyz(elem) == IF elem.xyz = None THEN <<0, 0, 0>> ELSE elem.xyz

\* size = [float(x) for x in box.get('size').split()]
parse_box(elem) ==
    IF elem.size = None THEN ParseError("AttributeError")
    ELSE IF \E k \in 1 .. Len(elem.size[1]) : ~elem.size[1][k].num
         THEN ParseError("ValueError")
    ELSE Parsed(<<Box([k \in 1 .. Len(elem.size[1]) |-> elem.size[1][k].val],
                      origin_xyz(elem))>>)

\* radius = float(sphere.get('radius'))
parse_sphere(elem) ==
    IF elem.radius = None THEN ParseError("TypeError")
    ELSE IF ~elem.radius[1].num THEN ParseError("ValueError")
    ELSE Parsed(<<Sphere(elem.radius[1].val, origin_xyz(elem))>>)

\* One <collision> element: the entry it appends, if any, or the exception.
parse_collision(elem) ==
    CASE elem.tag = "mesh" -> Parsed(<<MeshPrim(elem.file)>>)
      [] elem.tag = "box" -> parse_box(elem)
      [] elem.tag = "sphere" -> parse_sphere(elem)
      [] OTHER -> Parsed(<<>>)

\* The <collision> elements of a link, in order, up to the first exception.
parse_collisions(elems) ==
    LET F[n \in 0 .. Len(elems)] ==
            IF n = 0 THEN Parsed(<<>>)
            ELSE IF F[n - 1].exc # "None" THEN F[n - 1]
            ELSE LET r == parse_collision(elems[n])
                 IN  IF r.exc # "None" THEN r
                     ELSE Parsed(F[n - 1].prims \o r.prims)
    IN  F[Len(elems)]

\* The <visual> elements of a link: those with a mesh.
parse_visuals(elems) ==
    LET F[n \in 0 .. Len(elems)] ==
            IF n = 0 THEN <<>>
            ELSE IF elems[n].tag = "mesh" THEN Append(F[n - 1], [file |-> elems[n].file])
            ELSE F[n - 1]
    IN  F[Len(elems)]

\* A dict as a function; d[key] = value.
dict_set(d, key, value) ==
    [x \in DOMAIN d \cup {key} |-> IF x = key THEN value ELSE d[x]]

\* d.get(key)
dict_get(d, key) == IF key \in DOMAIN d THEN d[key] ELSE None

\* parse_urdf: the link table, or the first exception in document order.
parse_urdf(doc) ==
    LET F[n \in 0 .. Len(doc)] ==
            IF n = 0 THEN [exc |-> "None", links |-> <<>>]
            ELSE IF F[n - 1].exc # "None" THEN F[n - 1]
            ELSE LET c == parse_collisions(doc[n].collision)
                 IN  IF c.exc # "None" THEN [exc |-> c.exc, links |-> <<>>]
                     ELSE [exc |-> "None",
                           links |-> dict_set(F[n - 1].links, doc[n].name,
                                              [collision |-> c.prims,
                                               visual |-> parse_visuals(doc[n].visual)])]
    IN  F[Len(doc)]

---------------------------------------------------------------------------
(* main: the command line *)

\* str.lower on the words of the modelled command lines and configurations.
Lower(w) == CASE w = "Thumb" -> "thumb"
              [] w = "THUMB" -> "thumb"
              [] w = "X" -> "x"
              [] w = "Y" -> "y"
              [] w = "Z" -> "z"
              [] OTHER -> w

axis_name_to_int == [x |-> 0, y |-> 1, z |-> 2]

\* float(angle): None for a word float() raises ValueError on.  "37" stands for
\* the angle atan(3/4).
parse_float(w) == CASE w = "0" -> Some(0)
                    [] w = "37" -> Some(37)
                    [] OTHER -> None

\* A wrong handling of an axis that is no axis name: the spec is taken with Z.
parse_tip_axis_default(st, spec) ==
    IF Len(spec) >= 2
    THEN IF Len(spec) = 2 /\ Lower(spec[2]) \in DOMAIN axis_name_to_int
         THEN [st EXCEPT !.map = dict_set(st.map, Lower(spec[1]),
                                          Some(axis_name_to_int[Lower(spec[2])]))]
         ELSE [st EXCEPT !.map = dict_set(st.map, Lower(spec[1]), Some(2)),
                         !.warnings = Append(st.warnings, "Invalid axis")]
    ELSE [st EXCEPT !.warnings = Append(st.warnings, "Invalid tip-axes format")]

\* A spec is modelled by its parts between the colons.  One --tip-axes spec:
\* spec.split(':', 1) leaves every further colon in the axis, which is then no
\* axis name.
parse_tip_axis(st, spec) ==
    IF Len(spec) >= 2
    THEN IF Len(spec) = 2 /\ Lower(spec[2]) \in DOMAIN axis_name_to_int
         THEN [st EXCEPT !.map = dict_set(st.map, Lower(spec[1]),
                                          Some(axis_name_to_int[Lower(spec[2])]))]
         ELSE [st EXCEPT !.warnings = Append(st.warnings, "Invalid axis")]
    ELSE [st EXCEPT !.warnings = Append(st.warnings, "Invalid tip-axes format")]

\* One --tip-angles spec.
parse_tip_angle(st, spec) ==
    IF Len(spec) = 4
    THEN IF /\ Lower(spec[2]) \in DOMAIN axis_name_to_int
            /\ Lower(spec[3]) \in DOMAIN axis_name_to_int
         THEN IF parse_float(spec[4]) # None
              THEN [st EXCEPT !.map = dict_set(st.map, Lower(spec[1]),
                                               <<axis_name_to_int[Lower(spec[2])],
                                                 axis_name_to_int[Lower(spec[3])],
                                                 parse_float(spec[4])[1]>>)]
              ELSE [st EXCEPT !.warnings = Append(st.warnings, "Invalid angle")]
         ELSE [st EXCEPT !.warnings = Append(st.warnings, "Invalid axes")]
    ELSE [st EXCEPT !.warnings = Append(st.warnings, "Invalid tip-angles format")]

\* for spec in args.tip_axes: ...
parse_tip_axes(specs, printed) ==
    LET F[n \in 0 .. Len(specs)] ==
            IF n = 0 THEN [map |-> <<>>, warnings |-> printed]
            ELSE parse_tip_axis(F[n - 1], specs[n])
    IN  F[Len(specs)]

\* for spec in args.tip_angles: ...
parse_tip_angles(specs, printed) ==
    LET F[n \in 0 .. Len(specs)] ==
            IF n = 0 THEN [map |-> <<>>, warnings |-> printed]
            ELSE parse_tip_angle(F[n - 1], specs[n])
    IN  F[Len(specs)]

---------------------------------------------------------------------------
(* Inputs of main *)

MaxFingers == 2

FingerNames == <<"Thumb", "index", "middle">>

\* "tip3" is in no description.
LinkRefs == {"tip1", "tip2", "tip3"}

\* A finger entry of the configuration; with note, it has a key beyond the five.
FingerEntry(k, link, note) ==
    IF note
    THEN [name |-> FingerNames[k], link |-> link, joint |-> "joint",
          center_offset |-> <<k, k, k>>, human_hand_id |-> k, note |-> "kept"]
    ELSE [name |-> FingerNames[k], link |-> link, joint |-> "joint",
          center_offset |-> <<k, k, k>>, human_hand_id |-> k]

\* The fingers in the order of FingerNames, or in the reverse order.
FingerLists ==
    UNION {{[k \in 1 .. n |-> FingerEntry(IF reversed THEN n + 1 - k ELSE k, l[k], note)] :
               l \in [1 .. n -> LinkRefs], note \in BOOLEAN, reversed \in BOOLEAN} :
           n \in 0 .. MaxFingers}

Configs ==
    {[name |-> "hand", urdf_path |-> "hand.urdf", fingertip_link |-> f] : f \in FingerLists}

OneVertex == MeshFile(<<Vec(1, 1, 1)>>)

TwoVertices == MeshFile(<<Vec(1, 0, -1), Vec(-1, 0, 1)>>)

EmptyMesh == MeshFile(<<>>)

\* The <visual> and <collision> elements of a fingertip link.
LinkBodies ==
    {<< <<XMesh(OneVertex)>>, <<XMesh(TwoVertices)>> >>,
     << <<XMesh(OneVertex)>>, <<XMesh(MissingFile)>> >>,
     << <<>>, <<XMesh(MissingFile)>> >>,
     << <<XMesh(MissingFile)>>, <<XMesh(CorruptFile)>> >>,
     << <<XMesh(OneVertex)>>, <<XMesh(EmptyMesh)>> >>,
     << <<XMesh(EmptyMesh)>>, <<>> >>,
     << <<XMesh(OneVertex)>>, <<XCylinder>> >>,
     << <<>>, <<XBox(Some(<<Num(10 * Unit), Num(10 * Unit), Num(6 * Unit)>>), Vec(1, 2, 3))>> >>,
     << <<>>, <<XBox(None, None)>> >>,
     << <<>>, <<XBox(Some(<<Num(Unit), Num(Unit)>>), None)>> >>,
     << <<>>, <<XBox(Some(<<Num(Unit), NotNum, Num(Unit)>>), None)>> >>,
     << <<>>, <<XSphere(Some(Num(Unit \div 100)), None)>> >>,
     << <<>>, <<XSphere(None, None)>> >>}

\* The second link of the description: a mesh, or a sphere without radius.
OtherBodies ==
    {<< <<>>, <<XMesh(TwoVertices)>> >>,
     << <<>>, <<XSphere(None, None)>> >>}

UrdfDocs ==
    {<<XLink("tip1", b[1], b[2]), XLink("tip2", o[1], o[2])>> :
        b \in LinkBodies, o \in OtherBodies}

\* Command lines: the specs of --tip-axes and of --tip-angles, each spec given by
\* its parts between the colons.
TipAxesArgs ==
    {<<>>,
     << <<"THUMB", "Y">> >>,
     << <<"thumb", "q">>, <<"index", "x">> >>,
     << <<"thumb">>, <<"index", "z", "x">> >>}

TipAnglesArgs ==
    {<<>>,
     << <<"thumb", "y", "Z", "37">> >>,
     << <<"thumb", "x", "x", "0">> >>,
     << <<"thumb", "y", "z", "abc">>, <<"index", "z", "x", "0">> >>,
     << <<"thumb", "y", "z">>, <<"index", "q", "x", "0">> >>}

---------------------------------------------------------------------------
(* main *)

Init ==
    /\ pc = "args"
    /\ exc = "None"
    /\ args \in {[tip_axes |-> a, tip_angles |-> g] : a \in TipAxesArgs, g \in TipAnglesArgs}
    /\ config \in Configs
    /\ urdf \in UrdfDocs
    /\ tip_axes_map = <<>>
    /\ tip_angles_map = <<>>
    /\ links = <<>>
    /\ finger_idx = 0
    /\ suggestions = <<>>
    /\ warnings = <<>>
    /\ saved = None
    /\ link_data = NoLink
    /\ tip_axis = None
    /\ tip_axis_angle = None
    /\ loads = <<>>
    /\ geometry = InitResults
    /\ suggested_offset = None
    /\ NoMeshPath

\* "Parse tip axes": the two override maps.
ParseArgs ==
    /\ pc = "args"
    /\ LET axes == parse_tip_axes(args.tip_axes, warnings)
           angles == parse_tip_angles(args.tip_angles, axes.warnings)
       IN  /\ tip_axes_map' = axes.map
           /\ tip_angles_map' = angles.map
           /\ warnings' = angles.warnings
    /\ pc' = "urdf"
    /\ UNCHANGED <<exc, callvars, args, config, urdf, links, finger_idx, suggestions, saved,
                   pathvars>>

\* links = parse_urdf(urdf_path): an exception of parse_urdf leaves main.
ParseUrdf ==
    /\ pc = "urdf"
    /\ LET r == parse_urdf(urdf)
       IN  /\ exc' = r.exc
           /\ links' = r.links
           /\ pc' = IF r.exc = "None" THEN "loop" ELSE "aborted"
    /\ UNCHANGED <<callvars, args, tip_axes_map, tip_angles_map, config, urdf,
                   finger_idx, suggestions, warnings, saved, pathvars>>

\* The entry main appends for an analyzed finger.
suggestion(finger_info, offset) ==
    [name |-> finger_info.name, link |-> finger_info.link, joint |-> finger_info.joint,
     center_offset |-> offset, human_hand_id |-> finger_info.human_hand_id]

\* One pass of "for finger_info in config['fingertip_link']", of a link that is in
\* the description: an exception of the analysis leaves main.
Finger ==
    /\ pc = "loop"
    /\ finger_idx < Len(config.fingertip_link)
    /\ LET finger_info == config.fingertip_link[finger_idx + 1]
           axis == dict_get(tip_axes_map, Lower(finger_info.name))
           angle == dict_get(tip_angles_map, Lower(finger_info.name))
       IN  /\ finger_info.link \in DOMAIN links
           /\ LET r == analyze_fingertip_geometry(links[finger_info.link], axis, angle)
              IN  /\ link_data' = links[finger_info.link]
                  /\ tip_axis' = axis
                  /\ tip_axis_angle' = angle
                  /\ loads' = r.loads
                  /\ exc' = r.exc
                  /\ IF r.exc = "None"
                     THEN /\ geometry' = r.results
                          /\ suggested_offset' = suggest_center_offset(r.results)
                          /\ suggestions' =
                                 Append(suggestions,
                                        suggestion(finger_info,
                                                   suggest_center_offset(r.results)))
                          /\ finger_idx' = finger_idx + 1
                          /\ pc' = "loop"
                     ELSE /\ pc' = "aborted"
                          /\ UNCHANGED <<geometry, suggested_offset, suggestions, finger_idx>>
    /\ UNCHANGED <<args, tip_axes_map, tip_angles_map, config, urdf, links, warnings, saved,
                   pathvars>>

\* A wrong pass of the loop, of a link that is not in the description: a warning,
\* and no entry for the finger.
FingerWithoutLink_dropped ==
    /\ pc = "loop"
    /\ finger_idx < Len(config.fingertip_link)
    /\ LET finger_info == config.fingertip_link[finger_idx + 1]
       IN  /\ finger_info.link \notin DOMAIN links
           /\ warnings' = Append(warnings, "Link not found in URDF")
    /\ finger_idx' = finger_idx + 1
    /\ UNCHANGED <<pc, exc, callvars, args, tip_axes_map, tip_angles_map, config, urdf,
                   links, suggestions, saved, pathvars>>

\* One pass of the loop, of a link that is not in the description: a warning, and
\* the finger's entry as it is.
FingerWithoutLink ==
    /\ pc = "loop"
    /\ finger_idx < Len(config.fingertip_link)
    /\ LET finger_info == config.fingertip_link[finger_idx + 1]
       IN  /\ finger_info.link \notin DOMAIN links
           /\ warnings' = Append(warnings, "Link not found in URDF")
           /\ suggestions' = Append(suggestions, finger_info)
    /\ finger_idx' = finger_idx + 1
    /\ UNCHANGED <<pc, exc, callvars, args, tip_axes_map, tip_angles_map, config, urdf,
                   links, saved, pathvars>>

\* output_config = config.copy(); output_config['fingertip_link'] = suggestions
output_config(cfg, suggested) == [cfg EXCEPT !.fingertip_link = suggested]

\* After the loop: "Save if requested", with --save or without.
Finish ==
    /\ pc = "loop"
    /\ finger_idx = Len(config.fingertip_link)
    /\ \E save \in BOOLEAN :
           saved' = IF save THEN Some(output_config(config, suggestions)) ELSE None
    /\ pc' = "exit"
    /\ UNCHANGED <<exc, callvars, args, tip_axes_map, tip_angles_map, config, urdf, links,
                   finger_idx, suggestions, warnings, pathvars>>

Next == ParseArgs \/ ParseUrdf \/ Finger \/ FingerWithoutLink \/ Finish

Spec == Init /\ [][Next]_vars

---------------------------------------------------------------------------
(* Properties of main (checked under Spec) *)

\* The fingers of the configuration whose link is in the parsed link table.
LinkedFingers ==
    {k \in 1 .. Len(config.fingertip_link) : config.fingertip_link[k].link \in DOMAIN links}

LinkOf(k) == links[config.fingertip_link[k].link]

\* The mesh file of the link's first collision primitive is not found or not read.
CollisionMeshUnavailable(data) ==
    /\ data.collision # <<>>
    /\ data.collision[1].type = "mesh"
    /\ ~Readable(data.collision[1].file)

\* The link has no visual mesh, or its file is not found or not read.
VisualMeshUnavailable(data) ==
    data.visual # <<>> => ~Readable(data.visual[1].file)

\* The loop has gone through finger k.
Processed(k) == k <= Len(suggestions)

\* main was left by an exception raised in the loop's pass of finger k.
AbortedAt(k) == pc = "aborted" /\ parse_urdf(urdf).exc = "None" /\ k = finger_idx + 1

\* C8: a collision mesh file that is not found or not read does not abort the run:
\* the analysis goes on to the link's visual mesh, and if that is not available
\* either the suggested offset is (0,0,0); the loop goes on.
C8_UnavailableMeshCascades ==
    \A k \in LinkedFingers :
        CollisionMeshUnavailable(LinkOf(k)) =>
            /\ Processed(k) /\ VisualMeshUnavailable(LinkOf(k)) =>
                   suggestions[k].center_offset = <<0, 0, 0>>
            /\ Processed(k) /\ ~VisualMeshUnavailable(LinkOf(k)) =>
                   FirstMaxVertex(suggestions[k].center_offset,
                                  LinkOf(k).visual[1].file.vertices, 2)
            /\ AbortedAt(k) =>
                   /\ ~VisualMeshUnavailable(LinkOf(k))
                   /\ LinkOf(k).visual[1].file.vertices = <<>>

\* C8's case: the run ended; the first finger's collision mesh and visual mesh were
\* not available and its offset is (0,0,0); the second finger, after it, has an
\* offset from its mesh.
C8_Witness ==
    /\ pc = "exit"
    /\ Len(suggestions) = 2
    /\ 1 \in LinkedFingers
    /\ CollisionMeshUnavailable(LinkOf(1))
    /\ LinkOf(1).visual # <<>>
    /\ VisualMeshUnavailable(LinkOf(1))
    /\ suggestions[1].center_offset = <<0, 0, 0>>
    /\ suggestions[2].center_offset = Vec(1, 0, -1)

\* The mesh the analysis of the link reads has no vertices.
EmptyMeshRead(data) ==
    \/ /\ data.collision # <<>>
       /\ data.collision[1].type = "mesh"
       /\ Readable(data.collision[1].file)
       /\ data.collision[1].file.vertices = <<>>
    \/ /\ data.collision = <<>> \/ CollisionMeshUnavailable(data)
       /\ data.visual # <<>>
       /\ Readable(data.visual[1].file)
       /\ data.visual[1].file.vertices = <<>>

\* C9: a mesh without vertices yields no tip point but a GeometryError, and the
\* finger is skipped: the run goes on with the remaining fingers.
C9_EmptyMeshSkipsFinger ==
    \A k \in LinkedFingers :
        EmptyMeshRead(LinkOf(k)) =>
            /\ ~AbortedAt(k)
            /\ exc \in {"None", "GeometryError"}

\* A box of the description without three numbers as its size, or a sphere without
\* a number as its radius.
Malformed(elem) ==
    CASE elem.tag = "box" ->
            \/ elem.size = None
            \/ Len(elem.size[1]) < 3
            \/ \E k \in 1 .. Len(elem.size[1]) : ~elem.size[1][k].num
      [] elem.tag = "sphere" -> elem.radius = None \/ ~elem.radius[1].num
      [] OTHER -> FALSE

MalformedLink(link) == \E k \in 1 .. Len(link.collision) : Malformed(link.collision[k])

\* C10: a box without a usable size or a sphere without a usable radius is a
\* ConfigError fatal for the finger of that link only: the run is not left, and
\* at its end every finger of another link has its suggestion.
C10_MalformedPrimitiveSkipsFingerOnly ==
    (\E n \in 1 .. Len(urdf) : MalformedLink(urdf[n])) =>
        /\ pc # "aborted"
        /\ exc \in {"None", "ConfigError"}

---------------------------------------------------------------------------
(* Properties of the command line (checked under Spec) *)

AxisLetters == {"x", "y", "z", "X", "Y", "Z"}

AxisNumber(w) == CASE w \in {"x", "X"} -> 0
                   [] w \in {"y", "Y"} -> 1
                   [] w \in {"z", "Z"} -> 2

\* A --tip-axes spec finger:axis with an axis letter.
WellFormedAxisSpec(spec) == Len(spec) = 2 /\ spec[2] \in AxisLetters

\* A --tip-angles spec finger:from:to:angle with two axis letters and a number.
WellFormedAngleSpec(spec) ==
    /\ Len(spec) = 4
    /\ spec[2] \in AxisLetters
    /\ spec[3] \in AxisLetters
    /\ spec[4] \in {"0", "37"}

\* The well-formed specs of the list that name finger f.
AxisSpecsOf(f) ==
    {n \in 1 .. Len(args.tip_axes) :
        WellFormedAxisSpec(args.tip_axes[n]) /\ Lower(args.tip_axes[n][1]) = f}

AngleSpecsOf(f) ==
    {n \in 1 .. Len(args.tip_angles) :
        WellFormedAngleSpec(args.tip_angles[n]) /\ Lower(args.tip_angles[n][1]) = f}

MalformedAxisSpecs ==
    {n \in 1 .. Len(args.tip_axes) : ~WellFormedAxisSpec(args.tip_axes[n])}

MalformedAngleSpecs ==
    {n \in 1 .. Len(args.tip_angles) : ~WellFormedAngleSpec(args.tip_angles[n])}

ParseWarnings ==
    {"Invalid axis", "Invalid tip-axes format", "Invalid angle", "Invalid axes",
     "Invalid tip-angles format"}

\* The fingers a spec of the command line may name.
NamedFingers ==
    {Lower(args.tip_axes[n][1]) : n \in 1 .. Len(args.tip_axes)}
    \cup {Lower(args.tip_angles[n][1]) : n \in 1 .. Len(args.tip_angles)}
    \cup {Lower(FingerNames[k]) : k \in 1 .. Len(FingerNames)}

\* The finger of the last call of analyze_fingertip_geometry, 0 before the first.
LastAnalyzed ==
    IF pc = "aborted" /\ parse_urdf(urdf).exc = "None" THEN finger_idx + 1
    ELSE LET done == {k \in LinkedFingers : k <= finger_idx}
         IN  IF done = {} THEN 0 ELSE MaxOf(done)

\* C11: every malformed --tip-axes or --tip-angles spec gives one warning and no
\* entry of the override maps, and the parsing goes on: the maps hold exactly what
\* the well-formed specs of the lists say, the last one of a finger; a finger
\* without a well-formed spec is analyzed with no axis and no angle spec, its
\* collision mesh with the automatic axis.
C11_MalformedOverridesSkipped ==
    pc # "args" =>
        /\ Len(SelectSeq(warnings, LAMBDA w : w \in ParseWarnings))
               = Cardinality(MalformedAxisSpecs) + Cardinality(MalformedAngleSpecs)
        /\ \A f \in NamedFingers :
               /\ AxisSpecsOf(f) = {} => f \notin DOMAIN tip_axes_map
               /\ AxisSpecsOf(f) # {} =>
                      /\ f \in DOMAIN tip_axes_map
                      /\ tip_axes_map[f] =
                             Some(AxisNumber(args.tip_axes[MaxOf(AxisSpecsOf(f))][2]))
               /\ AngleSpecsOf(f) = {} => f \notin DOMAIN tip_angles_map
               /\ AngleSpecsOf(f) # {} =>
                      /\ f \in DOMAIN tip_angles_map
                      /\ LET spec == args.tip_angles[MaxOf(AngleSpecsOf(f))]
                         IN  /\ tip_angles_map[f][1] = AxisNumber(spec[2])
                             /\ tip_angles_map[f][2] = AxisNumber(spec[3])
                             /\ spec[4] = "0" <=> tip_angles_map[f][3] = 0
        /\ DOMAIN tip_axes_map \subseteq NamedFingers
        /\ DOMAIN tip_angles_map \subseteq NamedFingers
        /\ LastAnalyzed # 0 =>
               LET f == Lower(config.fingertip_link[LastAnalyzed].name)
               IN  /\ AxisSpecsOf(f) = {} => tip_axis = None
                   /\ AngleSpecsOf(f) = {} => tip_axis_angle = None
                   /\ /\ AxisSpecsOf(f) = {}
                      /\ AngleSpecsOf(f) = {}
                      /\ pc # "aborted"
                      /\ geometry.mesh_type = "collision_mesh"
                      => geometry.tip_axis_used # None /\ Len(geometry.tip_axis_used) = 1

\* C11's case: "thumb:q" and "thumb:y:z:abc" are malformed, "index:x" and
\* "index:z:x:0" are not; the thumb was analyzed with the automatic axis of its
\* mesh, and the index finger has its entries.
C11_Witness ==
    /\ args.tip_axes = << <<"thumb", "q">>, <<"index", "x">> >>
    /\ args.tip_angles = << <<"thumb", "y", "z", "abc">>, <<"index", "z", "x", "0">> >>
    /\ warnings = <<"Invalid axis", "Invalid angle">>
    /\ pc = "loop"
    /\ LastAnalyzed = 1
    /\ config.fingertip_link[1].name = "Thumb"
    /\ tip_axis = None
    /\ tip_axis_angle = None
    /\ geometry.mesh_type = "collision_mesh"
    /\ geometry.tip_axis_used = Some(0)
    /\ tip_axes_map = dict_set(<<>>, "index", Some(0))
    /\ tip_angles_map = dict_set(<<>>, "index", <<2, 0, 0>>)

---------------------------------------------------------------------------
(* Properties of the saved configuration (checked under Spec) *)

\* C12: with --save the written configuration has every top-level key of the
\* input with its value but fingertip_link, which has one entry per finger, and
\* each entry has every key of the finger's input entry other than center_offset,
\* the keys beyond name, link, joint and human_hand_id too, with its value.
C12_SavedConfigKeepsKeys ==
    saved # None =>
        LET written == saved[1]
        IN  /\ DOMAIN written = DOMAIN config
            /\ \A key \in DOMAIN config \ {"fingertip_link"} : written[key] = config[key]
            /\ Len(written.fingertip_link) = Len(config.fingertip_link)
            /\ \A k \in 1 .. Len(config.fingertip_link) :
                   \A key \in DOMAIN config.fingertip_link[k] \ {"center_offset"} :
                       /\ key \in DOMAIN written.fingertip_link[k]
                       /\ written.fingertip_link[k][key] = config.fingertip_link[k][key]

---------------------------------------------------------------------------
(* load_mesh and load_mesh_from_urdf: the path of a mesh file *)

\* A filename is modelled by the pieces its text is made of, one after the other,
\* a path by its components.  Every piece but the file's name ends with a slash,
\* so that a piece is a component of the path or the start of the text.
DirPieces == {"package://", "/", "foo/", "meshes/", "submeshes/"}

MaxDirs == 3

Filenames == {d \o f : d \in SeqsUpTo(DirPieces, MaxDirs), f \in {<<>>, <<"bar.stl">>}}

\* urdf_dir = Path(urdf_path).parent
urdf_dir == <<"D">>

\* mesh_path.startswith('package://')
str_startswith_package(p) == p # <<>> /\ p[1] = "package://"

\* mesh_path.replace('package://', ''): every occurrence goes.
str_replace_package(p) == SelectSeq(p, LAMBDA w : w # "package://")

\* split('meshes/')[-1] as it is not: the text after the first 'meshes/'.
str_split_meshes_first(p) ==
    LET at == {n \in 1 .. Len(p) : p[n] \in {"meshes/", "submeshes/"}}
    IN  IF at = {} THEN p ELSE SubSeq(p, MinOf(at) + 1, Len(p))

\* mesh_path.split('meshes/')[-1]: the text after the last 'meshes/', which the
\* text of "submeshes/" ends with too; the whole text if there is none.
str_split_meshes_last(p) ==
    LET at == {n \in 1 .. Len(p) : p[n] \in {"meshes/", "submeshes/"}}
    IN  IF at = {} THEN p ELSE SubSeq(p, MaxOf(at) + 1, Len(p))

\* The path component of a piece.
component(w) == CASE w = "foo/" -> "foo"
                  [] w = "meshes/" -> "meshes"
                  [] w = "submeshes/" -> "submeshes"
                  [] w = "package://" -> "package:"
                  [] OTHER -> w

\* The components of a text: a slash on its own adds none.
components(p) ==
    LET F[n \in 0 .. Len(p)] ==
            IF n = 0 THEN <<>>
            ELSE IF p[n] = "/" THEN F[n - 1]
            ELSE Append(F[n - 1], component(p[n]))
    IN  F[Len(p)]

\* The slashes the text starts with.
leading_slashes(p) ==
    Cardinality({n \in 1 .. Len(p) : \A k \in 1 .. n : p[k] = "/"})

\* Path(dir) / p: a text that starts with a slash is a path of its own, with the
\* root "//" for exactly two slashes.
path_join(dir, p) ==
    IF leading_slashes(p) = 0 THEN dir \o components(p)
    ELSE IF leading_slashes(p) = 2 THEN <<"//">> \o components(p)
    ELSE <<"/">> \o components(p)

\* The file system takes the root "//" for the root "/".
real_path(path) == IF path[1] = "//" THEN <<"/">> \o Tail(path) ELSE path

\* Path.exists(): a file, or a directory: a root, the description's directory, or
\* one a file is in.
path_exists(path, files) ==
    \/ real_path(path) \in DOMAIN files
    \/ real_path(path) \in {<<"/">>, urdf_dir}
    \/ \E q \in DOMAIN files :
           /\ Len(real_path(path)) < Len(q)
           /\ SubSeq(q, 1, Len(real_path(path))) = real_path(path)

\* What trimesh.load is given at a path that exists: only a file can be read.
file_at(path, files) ==
    IF real_path(path) \in DOMAIN files
    THEN [exists |-> TRUE,
          loadable |-> files[real_path(path)].loadable,
          vertices |-> files[real_path(path)].vertices]
    ELSE CorruptFile

\* load_mesh up to its try: the path it gives to trimesh.load, None where it
\* prints "Mesh file not found".
load_mesh_full_path(path, dir, files) ==
    LET stripped == IF str_startswith_package(path) THEN str_replace_package(path) ELSE path
        full_path == path_join(dir, stripped)
        alt_path == path_join(dir, str_split_meshes_last(stripped))
    IN  IF ~path_exists(full_path, files)
        THEN IF path_exists(alt_path, files) THEN Some(alt_path) ELSE None
        ELSE Some(full_path)

\* load_mesh_from_urdf of the visualization: the path given to trimesh.load and
\* the mesh returned.
load_mesh_from_urdf(path, dir, files) ==
    LET stripped == IF str_startswith_package(path) THEN str_replace_package(path) ELSE path
        first_path == path_join(dir, stripped)
        alt_path == path_join(dir, str_split_meshes_last(stripped))
        full_path == IF ~path_exists(first_path, files) /\ path_exists(alt_path, files)
                     THEN alt_path ELSE first_path
    IN  IF path_exists(full_path, files)
        THEN [opened |-> Some(full_path),
              mesh |-> IF file_at(full_path, files).loadable
                       THEN Some(file_at(full_path, files).vertices) ELSE None]
        ELSE [opened |-> None, mesh |-> None]

\* The paths files may be at.
FilePaths ==
    {<<"D", "foo", "meshes", "bar.stl">>,
     <<"D", "bar.stl">>,
     <<"D", "foo", "bar.stl">>,
     <<"/", "foo", "bar.stl">>}

\* The mesh of a file has one vertex, which tells the file.
VertexOf(path) ==
    CASE path = <<"D", "foo", "meshes", "bar.stl">> -> Vec(1, 0, 0)
      [] path = <<"D", "bar.stl">> -> Vec(2, 0, 0)
      [] path = <<"D", "foo", "bar.stl">> -> Vec(3, 0, 0)
      [] OTHER -> Vec(4, 0, 0)

\* Up to two files, each one a mesh or a file trimesh.load raises on.
Disks ==
    {[q \in S |-> IF q \in bad THEN [loadable |-> FALSE, vertices |-> <<>>]
                  ELSE [loadable |-> TRUE, vertices |-> <<VertexOf(q)>>]] :
        S \in {T \in SUBSET FilePaths : Cardinality(T) <= 2}, bad \in SUBSET FilePaths}

InitResolve ==
    /\ pc = "resolve"
    /\ mesh_path \in Filenames
    /\ disk \in Disks
    /\ analysis_opened = None
    /\ analysis_mesh = None
    /\ viz_opened = None
    /\ viz_mesh = None
    /\ exc = "None"
    /\ link_data = NoLink
    /\ tip_axis = None
    /\ tip_axis_angle = None
    /\ loads = <<>>
    /\ geometry = InitResults
    /\ suggested_offset = None
    /\ args = [tip_axes |-> <<>>, tip_angles |-> <<>>]
    /\ tip_axes_map = <<>>
    /\ tip_angles_map = <<>>
    /\ config = [urdf_path |-> "", fingertip_link |-> <<>>]
    /\ urdf = <<>>
    /\ links = <<>>
    /\ finger_idx = 0
    /\ suggestions = <<>>
    /\ warnings = <<>>
    /\ saved = None

\* mesh = load_mesh(mesh_path, urdf_dir), of the analysis
LoadMesh ==
    /\ pc = "resolve"
    /\ LET found == load_mesh_full_path(mesh_path, urdf_dir, disk)
       IN  /\ analysis_opened' = found
           /\ analysis_mesh' = IF found = None THEN load_mesh(MissingFile)
                               ELSE load_mesh(file_at(found[1], disk))
    /\ pc' = "resolved"
    /\ UNCHANGED <<exc, callvars, mainvars, mesh_path, disk, viz_opened, viz_mesh>>

\* mesh = load_mesh_from_urdf(mesh_info['file'], urdf_dir), of the visualization
LoadMeshFromUrdf ==
    /\ pc = "resolved"
    /\ viz_opened' = load_mesh_from_urdf(mesh_path, urdf_dir, disk).opened
    /\ viz_mesh' = load_mesh_from_urdf(mesh_path, urdf_dir, disk).mesh
    /\ pc' = "shown"
    /\ UNCHANGED <<exc, callvars, mainvars, mesh_path, disk, analysis_opened, analysis_mesh>>

NextResolve == LoadMesh \/ LoadMeshFromUrdf

SpecResolve == InitResolve /\ [][NextResolve]_vars

---------------------------------------------------------------------------
(* Properties of the path of a mesh file (checked under SpecResolve) *)

\* The filename without the package:// it starts with.
WithoutLeadingPackage(p) == IF p # <<>> /\ p[1] = "package://" THEN Tail(p) ELSE p

\* The filename that starts with package:// without any package://.
WithoutPackage(p) ==
    IF p # <<>> /\ p[1] = "package://"
    THEN [n \in 1 .. Cardinality({k \in 1 .. Len(p) : p[k] # "package://"}) |->
             p[CHOOSE k \in 1 .. Len(p) :
                   /\ p[k] # "package://"
                   /\ Cardinality({j \in 1 .. k : p[j] # "package://"}) = n]]
    ELSE p

\* s is what follows the last piece of p that is in marks, p itself if none is.
FollowsLast(s, p, marks) ==
    \/ /\ \A n \in 1 .. Len(p) : p[n] \notin marks
       /\ s = p
    \/ \E n \in 1 .. Len(p) :
           /\ p[n] \in marks
           /\ \A k \in (n + 1) .. Len(p) : p[k] \notin marks
           /\ s = SubSeq(p, n + 1, Len(p))

\* The mesh a file at the path gives: None for a corrupt file or a directory.
MeshAt(path) ==
    IF real_path(path) \in DOMAIN disk /\ disk[real_path(path)].loadable
    THEN Some(disk[real_path(path)].vertices)
    ELSE None

\* The candidate first if it exists, else the candidate second if it exists.
Resolved(first, second) ==
    IF path_exists(first, disk) THEN Some(first)
    ELSE IF path_exists(second, disk) THEN Some(second)
    ELSE None

\* Both tools return the mesh at the candidate first, and at the candidate second
\* only if first does not exist; with neither there is no mesh and no error.
LoadsFrom(first, second) ==
    /\ exc = "None"
    /\ analysis_mesh = IF Resolved(first, second) = None THEN None
                       ELSE MeshAt(Resolved(first, second)[1])
    /\ pc = "shown" => viz_mesh = analysis_mesh

\* Both tools open the candidate first, and the candidate second only if first
\* does not exist.
OpensIn(first, second) ==
    /\ analysis_opened = Resolved(first, second)
    /\ pc = "shown" => viz_opened = analysis_opened

\* C13 as stated: the first candidate is the filename without a leading package://
\* joined to D, the second one D joined with what follows the last component
\* meshes/ of the filename; the mesh of both tools is the one at the first
\* candidate that exists, and no mesh with neither.
C13_CandidatesByComponent ==
    pc \in {"resolved", "shown"} =>
        \E s \in Filenames :
            /\ FollowsLast(s, WithoutLeadingPackage(mesh_path), {"meshes/"})
            /\ LoadsFrom(path_join(urdf_dir, WithoutLeadingPackage(mesh_path)),
                         path_join(urdf_dir, s))

\* C13, amended: the first candidate is the filename, without any package:// if it
\* starts with one, joined to D; the second one is D joined with what follows the
\* last text meshes/ of that filename, at the end of a longer directory name too.
\* The second is tried only if the first does not exist; with neither there is no
\* mesh and no error; both tools open the same path.
C13_CandidatesByText ==
    pc \in {"resolved", "shown"} =>
        \E s \in Filenames :
            /\ FollowsLast(s, WithoutPackage(mesh_path), {"meshes/", "submeshes/"})
            /\ LoadsFrom(path_join(urdf_dir, WithoutPackage(mesh_path)),
                         path_join(urdf_dir, s))
            /\ OpensIn(path_join(urdf_dir, WithoutPackage(mesh_path)),
                       path_join(urdf_dir, s))

\* C13's case: package://foo/meshes/bar.stl with no file D/foo/meshes/bar.stl and
\* a file D/bar.stl, which both tools open.
C13_Witness ==
    /\ pc = "shown"
    /\ mesh_path = <<"package://", "foo/", "meshes/", "bar.stl">>
    /\ DOMAIN disk = {<<"D", "bar.stl">>}
    /\ analysis_opened = Some(<<"D", "bar.stl">>)
    /\ analysis_mesh = Some(<<Vec(2, 0, 0)>>)
    /\ viz_opened = analysis_opened
    /\ viz_mesh = analysis_mesh

---------------------------------------------------------------------------
(* Properties of the result of the analysis (checked under SpecAnalyze) *)

\* C14: in every result analyze_fingertip_geometry returns, mesh_type is None
\* exactly when there is no tip estimate, and bounds, centroid and center are set
\* only with a mesh_type; so the offset suggested for a result is its tip estimate,
\* or (0,0,0) for a result with mesh_type None and nothing else: never its centroid
\* or its center by their branches.
C14_MeshTypeIffTipEstimate ==
    pc \in {"analyzed", "done"} =>
        /\ geometry.mesh_type = "None" <=> geometry.tip_estimate = None
        /\ geometry.mesh_type = "None" =>
               /\ geometry.bounds = None
               /\ geometry.centroid = None
               /\ geometry.center = None
        /\ pc = "done" =>
               IF geometry.tip_estimate # None
               THEN suggested_offset = geometry.tip_estimate
               ELSE suggested_offset = <<0, 0, 0>> /\ geometry = InitResults

\* C14's case: neither the collision mesh nor the visual mesh of the link was read,
\* the result has no mesh_type and the offset is the fallback.
C14_Witness ==
    /\ pc = "done"
    /\ loads = <<"collision", "visual">>
    /\ geometry.mesh_type = "None"
    /\ geometry.tip_estimate = None
    /\ suggested_offset = <<0, 0, 0>>

---------------------------------------------------------------------------
(* Properties of the angle specs (checked under Spec) *)

\* C15: an angle spec whose from_axis is its to_axis is rejected for its finger
\* and gives no tip: the analysis of a finger with such a spec has no tip
\* direction, degenerate or other.
C15_EqualAxesAngleRejected ==
    tip_axis_angle # None /\ tip_axis_angle[1] = tip_axis_angle[2] =>
        geometry.tip_direction = None

---------------------------------------------------------------------------
(* Properties of the list of suggestions (checked under Spec) *)

\* What main appends for an entry that is the only finger configured.
SuggestionAlone(finger_info) ==
    LET table == parse_urdf(urdf).links
        axis == dict_get(parse_tip_axes(args.tip_axes, <<>>).map, Lower(finger_info.name))
        angle == dict_get(parse_tip_angles(args.tip_angles, <<>>).map,
                          Lower(finger_info.name))
    IN  IF finger_info.link \in DOMAIN table
        THEN suggestion(finger_info,
                        suggest_center_offset(
                            analyze_fingertip_geometry(table[finger_info.link],
                                                       axis, angle).results))
        ELSE finger_info

\* C16: after the loop the suggestions are one entry per configured finger, in the
\* order of the configuration, each with the name and the link of its finger; the
\* entry of a finger whose link is not in the description is its input entry,
\* center_offset included; and the entry of a finger is the one it has as the only
\* finger configured, whatever the other fingers and their order.
C16_OneSuggestionPerFinger ==
    pc = "exit" =>
        /\ Len(suggestions) = Len(config.fingertip_link)
        /\ \A k \in 1 .. Len(config.fingertip_link) :
               /\ k <= Len(suggestions)
               /\ suggestions[k].name = config.fingertip_link[k].name
               /\ suggestions[k].link = config.fingertip_link[k].link
               /\ k \notin LinkedFingers => suggestions[k] = config.fingertip_link[k]
               /\ suggestions[k] = SuggestionAlone(config.fingertip_link[k])

\* C16's case: the index finger, first, has a link that is not in the description
\* and keeps its entry; the thumb, second, has the offset of its mesh, found with
\* its axis Y.
C16_Witness ==
    /\ pc = "exit"
    /\ Len(suggestions) = 2
    /\ config.fingertip_link[1].name = "index"
    /\ config.fingertip_link[1].link = "tip3"
    /\ suggestions[1] = config.fingertip_link[1]
    /\ config.fingertip_link[2].name = "Thumb"
    /\ 2 \in LinkedFingers
    /\ tip_axis = Some(1)
    /\ geometry.mesh_type = "collision_mesh"
    /\ suggestions[2].center_offset = geometry.tip_estimate
    /\ suggestions[2].center_offset # config.fingertip_link[2].center_offset

====
